---- MODULE Spec2Model ----
(***************************************************************************)
(* Model of generate_sample.js: the CBOREncoder class (a growable buffer   *)
(* and six encode operations plus getBuffer) and the COSE_Sign1 / CWT      *)
(* sample assembler built on it.                                           *)
(*                                                                         *)
(* JS numbers that may exceed a signed 32-bit integer are held as         *)
(* two base-65536 limbs [hi, lo] with value hi * 65536 + lo.  Buffer       *)
(* elements, lengths and negative integers are plain integers.  A JS       *)
(* string is the sequence of its UTF-16 code units.                        *)
(***************************************************************************)
EXTENDS Integers, Sequences, FiniteSets, TLC

VARIABLES
    pc,                 \* position of the running script
    ip,                 \* index of the next statement of the function at pc
    buffer,             \* this.buffer of the encoder in use
    pre,                \* this.buffer as it was before the last call
    calls,              \* the calls made on the encoder in use, in order
    outcome,            \* how the last call ended: "none", "returned", "threw"
    result,             \* the value returned by getBuffer()
    protectedHeaders,   \* createCOSESign1's local of that name
    unprotectedHeaders, \* createCOSESign1's local of that name
    payload,            \* createCOSESign1's local of that name
    signature           \* createCOSESign1's local of that name

vars == <<pc, ip, buffer, pre, calls, outcome, result,
          protectedHeaders, unprotectedHeaders, payload, signature>>

\* Number of calls made on one encoder when the class is used directly.
MaxCalls == 2

---------------------------------------------------------------------------
(* JS numbers and the 32-bit integer operators                             *)

\* The limbs of a number n below 2^31.
N(n) == [hi |-> n \div 65536, lo |-> n % 65536]

\* a < b on limbs.
NumLt(a, b) == a.hi < b.hi \/ (a.hi = b.hi /\ a.lo < b.lo)

\* ToInt32 of a non-negative integral number: its low 32 bits, read signed.
ToInt32(value) ==
    LET h == value.hi % 65536
    IN  IF h >= 32768 THEN (h - 65536) * 65536 + value.lo
                      ELSE h * 65536 + value.lo

\* x >> n on a 32-bit signed integer (sign-propagating).
Sar(x, n) == x \div (2 ^ n)

RECURSIVE And32(_, _)
\* x & y on 32-bit signed integers.
And32(x, y) ==
    IF x = 0 \/ y = 0 THEN 0
    ELSE IF x = -1 THEN y
    ELSE IF y = -1 THEN x
    ELSE (x % 2) * (y % 2) + 2 * And32(x \div 2, y \div 2)

RECURSIVE Or32(_, _)
\* x | y on 32-bit signed integers.
Or32(x, y) ==
    IF x = 0 THEN y
    ELSE IF y = 0 THEN x
    ELSE IF x = -1 \/ y = -1 THEN -1
    ELSE (IF x % 2 = 1 \/ y % 2 = 1 THEN 1 ELSE 0) + 2 * Or32(x \div 2, y \div 2)

\* Math.abs on an integer.
Abs(x) == IF x < 0 THEN -x ELSE x

---------------------------------------------------------------------------
(* Platform conversions                                                    *)

IsHighSurrogate(u) == u >= 55296 /\ u <= 56319
IsLowSurrogate(u) == u >= 56320 /\ u <= 57343

\* The UTF-8 bytes of one Unicode scalar value.
UTF8OfCodePoint(cp) ==
    IF cp < 128 THEN <<cp>>
    ELSE IF cp < 2048 THEN <<192 + (cp \div 64), 128 + (cp % 64)>>
    ELSE IF cp < 65536 THEN
        <<224 + (cp \div 4096), 128 + ((cp \div 64) % 64), 128 + (cp % 64)>>
    ELSE <<240 + (cp \div 262144), 128 + ((cp \div 4096) % 64),
           128 + ((cp \div 64) % 64), 128 + (cp % 64)>>

\* The bytes that code unit i of text contributes: a surrogate pair is one
\* scalar value (its bytes stand at the high surrogate), a lone surrogate
\* becomes U+FFFD.
UTF8Piece(text, i) ==
    LET u == text[i]
    IN  IF IsHighSurrogate(u) /\ i < Len(text) /\ IsLowSurrogate(text[i + 1])
        THEN UTF8OfCodePoint(65536 + (u - 55296) * 1024 + (text[i + 1] - 56320))
        ELSE IF IsLowSurrogate(u) /\ i > 1 /\ IsHighSurrogate(text[i - 1])
        THEN <<>>
        ELSE IF IsHighSurrogate(u) \/ IsLowSurrogate(u)
        THEN UTF8OfCodePoint(65533)
        ELSE UTF8OfCodePoint(u)

RECURSIVE UTF8Range(_, _, _)
\* The bytes of code units i..j of text, in order.
UTF8Range(text, i, j) ==
    IF i > j THEN <<>>
    ELSE IF i = j THEN UTF8Piece(text, i)
    ELSE LET m == (i + j) \div 2
         IN  UTF8Range(text, i, m) \o UTF8Range(text, m + 1, j)

\* new TextEncoder().encode(text): the UTF-8 bytes of the string.
TextEncoderEncode(text) == UTF8Range(text, 1, Len(text))

\* new Uint8Array(array): every element taken modulo 256.
Uint8Array(array) == [i \in 1..Len(array) |-> array[i] % 256]

---------------------------------------------------------------------------
(* CBOREncoder: each method as the buffer it leaves                        *)

\* push with the items put at the front (unshift).
push_Front(buf, items) == items \o buf

\* Array.prototype.push: the items are added at the end.
push(buf, items) == buf \o items

\* encodeUint with the top byte of the four-byte form left unmasked.
encodeUint_SignedShift(buf, value) ==
    IF NumLt(value, N(24)) THEN push(buf, <<value.lo>>)
    ELSE IF NumLt(value, N(256)) THEN push(buf, <<24, value.lo>>)
    ELSE IF NumLt(value, N(65536)) THEN
        push(buf, <<25, Sar(ToInt32(value), 8), And32(ToInt32(value), 255)>>)
    ELSE push(buf, <<26,
                     Sar(ToInt32(value), 24),
                     And32(Sar(ToInt32(value), 16), 255),
                     And32(Sar(ToInt32(value), 8), 255),
                     And32(ToInt32(value), 255)>>)

encodeUint(buf, value) ==
    IF NumLt(value, N(24)) THEN push(buf, <<value.lo>>)
    ELSE IF NumLt(value, N(256)) THEN push(buf, <<24, value.lo>>)
    ELSE IF NumLt(value, N(65536)) THEN
        push(buf, <<25, Sar(ToInt32(value), 8), And32(ToInt32(value), 255)>>)
    ELSE push(buf, <<26,
                     And32(Sar(ToInt32(value), 24), 255),
                     And32(Sar(ToInt32(value), 16), 255),
                     And32(Sar(ToInt32(value), 8), 255),
                     And32(ToInt32(value), 255)>>)

\* encodeNegativeInt with the magnitude not lowered by one.
encodeNegativeInt_NoOffset(buf, value) ==
    LET absValue == Abs(value)
    IN  IF absValue < 24 THEN push(buf, <<Or32(32, absValue)>>)
        ELSE IF absValue < 256 THEN push(buf, <<Or32(32, 24), absValue>>)
        ELSE buf

encodeNegativeInt(buf, value) ==
    LET absValue == Abs(value) - 1
    IN  IF absValue < 24 THEN push(buf, <<Or32(32, absValue)>>)
        ELSE IF absValue < 256 THEN push(buf, <<Or32(32, 24), absValue>>)
        ELSE buf

encodeBytes(buf, bytes) ==
    LET b1 == push(buf, <<Or32(64, IF Len(bytes) < 24 THEN Len(bytes) ELSE 24)>>)
        b2 == IF Len(bytes) >= 24 THEN push(b1, <<Len(bytes)>>) ELSE b1
    IN  push(b2, bytes)

\* encodeText with the head taken from the string's length in code units.
encodeText_CharLength(buf, text) ==
    LET bytes == TextEncoderEncode(text)
        b1 == push(buf, <<Or32(96, IF Len(text) < 24 THEN Len(text) ELSE 24)>>)
        b2 == IF Len(text) >= 24 THEN push(b1, <<Len(text)>>) ELSE b1
    IN  push(b2, bytes)

encodeText(buf, text) ==
    LET bytes == TextEncoderEncode(text)
        b1 == push(buf, <<Or32(96, IF Len(bytes) < 24 THEN Len(bytes) ELSE 24)>>)
        b2 == IF Len(bytes) >= 24 THEN push(b1, <<Len(bytes)>>) ELSE b1
    IN  push(b2, bytes)

encodeArray(buf, length) ==
    LET b1 == push(buf, <<Or32(128, IF length < 24 THEN length ELSE 24)>>)
    IN  IF length >= 24 THEN push(b1, <<length>>) ELSE b1

\* encodeMap with the array's major type.
encodeMap_ArrayTag(buf, length) ==
    LET b1 == push(buf, <<Or32(128, IF length < 24 THEN length ELSE 24)>>)
    IN  IF length >= 24 THEN push(b1, <<length>>) ELSE b1

encodeMap(buf, length) ==
    LET b1 == push(buf, <<Or32(160, IF length < 24 THEN length ELSE 24)>>)
    IN  IF length >= 24 THEN push(b1, <<length>>) ELSE b1

getBuffer(buf) == Uint8Array(buf)

\* One call on the encoder, as the record kept in calls: the buffer it leaves.
Apply(buf, c) ==
    CASE c.op = "encodeUint" -> encodeUint(buf, c.arg)
      [] c.op = "encodeNegativeInt" -> encodeNegativeInt(buf, c.arg)
      [] c.op = "encodeBytes" -> encodeBytes(buf, c.arg)
      [] c.op = "encodeText" -> encodeText(buf, c.arg)
      [] c.op = "encodeArray" -> encodeArray(buf, c.arg)
      [] c.op = "encodeMap" -> encodeMap(buf, c.arg)
      [] c.op = "push" -> push(buf, c.arg)

---------------------------------------------------------------------------
(* Values given to the encoder                                             *)

\* "coap://as.example.com"
TextIss ==
    <<99, 111, 97, 112, 58, 47, 47, 97, 115, 46, 101, 120, 97, 109, 112,
      108, 101, 46, 99, 111, 109>>

\* "erikw"
TextSub ==
    <<101, 114, 105, 107, 119>>

\* "coap://light.example.com"
TextAud ==
    <<99, 111, 97, 112, 58, 47, 47, 108, 105, 103, 104, 116, 46, 101, 120,
      97, 109, 112, 108, 101, 46, 99, 111, 109>>

\* "production"
TextEnv ==
    <<112, 114, 111, 100, 117, 99, 116, 105, 111, 110>>

\* "admin"
TextAdmin ==
    <<97, 100, 109, 105, 110>>

\* "edit"
TextEdit ==
    <<101, 100, 105, 116>>

\* "read"
TextRead ==
    <<114, 101, 97, 100>>

\* "test-key"
TextKid ==
    <<116, 101, 115, 116, 45, 107, 101, 121>>

\* A byte string of n bytes.
ByteRun(n) == [i \in 1..n |-> (i * 7) % 256]

\* A string of n copies of the code unit u.
Repeat(u, n) == [i \in 1..n |-> u]

\* 2^31, 2^32 - 1 and 2^32 are written as limbs.
UintInputs ==
    {N(0), N(23), N(24), N(255), N(256), N(65535), N(65536), N(1444064944),
     [hi |-> 32768, lo |-> 0], [hi |-> 65535, lo |-> 65535],
     [hi |-> 65536, lo |-> 0]}

NegativeIntInputs == {-1, -7, -24, -25, -256, -257}

BytesInputs == {<<11, 113>>, ByteRun(23), ByteRun(24), ByteRun(255), ByteRun(256)}

\* "erikw"; twelve e-acute (12 code units, 24 bytes); the euro sign; a
\* surrogate pair (U+1F600); a lone high surrogate; 255 and 256 letters.
TextInputs ==
    {TextSub, Repeat(233, 12), <<8364>>, <<55357, 56832>>, <<55357>>,
     Repeat(97, 255), Repeat(97, 256)}

LengthInputs == {0, 1, 2, 23, 24, 255, 256}

Call(op, arg) == [op |-> op, arg |-> arg]

---------------------------------------------------------------------------
(* The sample assembler: each function as the calls it makes, in order     *)

\* createCWTClaims with a header that counts eight entries.
createCWTClaims_StaleCount ==
    << Call("encodeMap", 8),
       Call("encodeUint", N(1)), Call("encodeText", TextIss),
       Call("encodeUint", N(2)), Call("encodeText", TextSub),
       Call("encodeUint", N(3)), Call("encodeText", TextAud),
       Call("encodeUint", N(4)), Call("encodeUint", N(1444064944)),
       Call("encodeUint", N(5)), Call("encodeUint", N(1443944944)),
       Call("encodeUint", N(6)), Call("encodeUint", N(1443944944)),
       Call("encodeUint", N(7)), Call("encodeBytes", <<11, 113>>),
       Call("encodeUint", N(100)), Call("encodeText", TextEnv),
       Call("encodeUint", N(101)), Call("encodeArray", 3),
       Call("encodeText", TextAdmin),
       Call("encodeText", TextEdit),
       Call("encodeText", TextRead) >>

createCWTClaims ==
    << Call("encodeMap", 9),
       Call("encodeUint", N(1)), Call("encodeText", TextIss),
       Call("encodeUint", N(2)), Call("encodeText", TextSub),
       Call("encodeUint", N(3)), Call("encodeText", TextAud),
       Call("encodeUint", N(4)), Call("encodeUint", N(1444064944)),
       Call("encodeUint", N(5)), Call("encodeUint", N(1443944944)),
       Call("encodeUint", N(6)), Call("encodeUint", N(1443944944)),
       Call("encodeUint", N(7)), Call("encodeBytes", <<11, 113>>),
       Call("encodeUint", N(100)), Call("encodeText", TextEnv),
       Call("encodeUint", N(101)), Call("encodeArray", 3),
       Call("encodeText", TextAdmin),
       Call("encodeText", TextEdit),
       Call("encodeText", TextRead) >>

createProtectedHeaders ==
    << Call("encodeMap", 1),
       Call("encodeUint", N(1)),
       Call("encodeNegativeInt", -7) >>

createUnprotectedHeaders ==
    << Call("encodeMap", 1),
       Call("encodeUint", N(4)),
       Call("encodeText", TextKid) >>

\* new Array(64).fill(0).map((_, i) => 0x30 + (i % 10))
DummySignature == [i \in 1..64 |-> 48 + ((i - 1) % 10)]

\* Array.from(typedArray): the same elements.
ArrayFrom(a) == a

\* createCOSESign1 with the unprotected headers wrapped as a byte string.
createCOSESign1_WrappedUnprotected ==
    << Call("encodeArray", 4),
       Call("encodeBytes", ArrayFrom(protectedHeaders)),
       Call("encodeBytes", ArrayFrom(unprotectedHeaders)),
       Call("encodeBytes", ArrayFrom(payload)),
       Call("encodeBytes", signature) >>

createCOSESign1 ==
    << Call("encodeArray", 4),
       Call("encodeBytes", ArrayFrom(protectedHeaders)),
       Call("push", unprotectedHeaders),
       Call("encodeBytes", ArrayFrom(payload)),
       Call("encodeBytes", signature) >>

SampleFunctions ==
    {"createProtectedHeaders", "createUnprotectedHeaders",
     "createCWTClaims", "createCOSESign1"}

Body(fn) ==
    CASE fn = "createProtectedHeaders" -> createProtectedHeaders
      [] fn = "createUnprotectedHeaders" -> createUnprotectedHeaders
      [] fn = "createCWTClaims" -> createCWTClaims
      [] fn = "createCOSESign1" -> createCOSESign1

---------------------------------------------------------------------------
(* The state machine                                                       *)

\* Either the class is used directly (pc = "encoder") or the script runs
\* generateSample, which starts createCOSESign1 with its first call.
Init ==
    /\ pc \in {"encoder", "createProtectedHeaders"}
    /\ ip = IF pc = "encoder" THEN 1 ELSE 0
    /\ buffer = <<>>
    /\ pre = <<>>
    /\ calls = <<>>
    /\ outcome = "none"
    /\ result = <<>>
    /\ protectedHeaders = <<>>
    /\ unprotectedHeaders = <<>>
    /\ payload = <<>>
    /\ signature = <<>>

\* A call c on the encoder in use.  No method of the class throws.
Do(c) ==
    /\ pre' = buffer
    /\ buffer' = Apply(buffer, c)
    /\ calls' = Append(calls, c)
    /\ outcome' = "returned"

Locals == <<protectedHeaders, unprotectedHeaders, payload, signature>>

EncodeUint ==
    /\ pc = "encoder" /\ Len(calls) < MaxCalls
    /\ \E value \in UintInputs : Do(Call("encodeUint", value))
    /\ UNCHANGED <<pc, ip, result, Locals>>

EncodeNegativeInt ==
    /\ pc = "encoder" /\ Len(calls) < MaxCalls
    /\ \E value \in NegativeIntInputs : Do(Call("encodeNegativeInt", value))
    /\ UNCHANGED <<pc, ip, result, Locals>>

EncodeBytes ==
    /\ pc = "encoder" /\ Len(calls) < MaxCalls
    /\ \E bytes \in BytesInputs : Do(Call("encodeBytes", bytes))
    /\ UNCHANGED <<pc, ip, result, Locals>>

EncodeText ==
    /\ pc = "encoder" /\ Len(calls) < MaxCalls
    /\ \E text \in TextInputs : Do(Call("encodeText", text))
    /\ UNCHANGED <<pc, ip, result, Locals>>

EncodeArray ==
    /\ pc = "encoder" /\ Len(calls) < MaxCalls
    /\ \E length \in LengthInputs : Do(Call("encodeArray", length))
    /\ UNCHANGED <<pc, ip, result, Locals>>

EncodeMap ==
    /\ pc = "encoder" /\ Len(calls) < MaxCalls
    /\ \E length \in LengthInputs : Do(Call("encodeMap", length))
    /\ UNCHANGED <<pc, ip, result, Locals>>

\* getBuffer() ends the direct use of an encoder, as it does in the script.
GetBuffer ==
    /\ pc = "encoder"
    /\ result' = getBuffer(buffer)
    /\ pc' = "returned"
    /\ UNCHANGED <<ip, buffer, pre, calls, outcome, Locals>>

\* const encoder = new CBOREncoder();
NewEncoder ==
    /\ pc \in SampleFunctions /\ ip = 0
    /\ buffer' = <<>>
    /\ pre' = <<>>
    /\ calls' = <<>>
    /\ outcome' = "none"
    /\ ip' = 1
    /\ UNCHANGED <<pc, result, Locals>>

\* The next call of the function at pc.
Statement ==
    /\ pc \in SampleFunctions /\ ip >= 1 /\ ip <= Len(Body(pc))
    /\ Do(Body(pc)[ip])
    /\ ip' = ip + 1
    /\ UNCHANGED <<pc, result, Locals>>

\* return encoder.getBuffer(); the caller, createCOSESign1, keeps the value.
Return ==
    /\ pc \in SampleFunctions /\ ip = Len(Body(pc)) + 1
    /\ result' = getBuffer(buffer)
    /\ protectedHeaders' =
           IF pc = "createProtectedHeaders" THEN result' ELSE protectedHeaders
    /\ unprotectedHeaders' =
           IF pc = "createUnprotectedHeaders" THEN result' ELSE unprotectedHeaders
    /\ payload' = IF pc = "createCWTClaims" THEN result' ELSE payload
    /\ pc' = CASE pc = "createProtectedHeaders" -> "createUnprotectedHeaders"
               [] pc = "createUnprotectedHeaders" -> "createCWTClaims"
               [] pc = "createCWTClaims" -> "signature"
               [] pc = "createCOSESign1" -> "done"
    /\ ip' = 0
    /\ UNCHANGED <<buffer, pre, calls, outcome, signature>>

\* const signature = ...
Signature ==
    /\ pc = "signature"
    /\ signature' = DummySignature
    /\ pc' = "createCOSESign1"
    /\ UNCHANGED <<ip, buffer, pre, calls, outcome, result,
                   protectedHeaders, unprotectedHeaders, payload>>

Next ==
    \/ EncodeUint
    \/ EncodeNegativeInt
    \/ EncodeBytes
    \/ EncodeText
    \/ EncodeArray
    \/ EncodeMap
    \/ GetBuffer
    \/ NewEncoder
    \/ Statement
    \/ Return
    \/ Signature

Spec == Init /\ [][Next]_vars

---------------------------------------------------------------------------
(* A reference CBOR decoder (RFC 8949) for the six major types, used to    *)
(* state the claims.  It accepts any well-formed head, minimal or not.     *)

IsByte(x) == x >= 0 /\ x <= 255

UintItem(n) == [type |-> "uint", u |-> n]
\* The negative integer -1 - m.
NintItem(m) == [type |-> "nint", m |-> m]
BstrItem(b) == [type |-> "bstr", b |-> b]
TstrItem(t) == [type |-> "tstr", t |-> t]
ArrayItem(a) == [type |-> "array", a |-> a]
MapItem(m) == [type |-> "map", pairs |-> m]

NoHead == [ok |-> FALSE, major |-> 0, arg |-> N(0), next |-> 0]

\* The head at position pos: major type, argument (as limbs), next position.
DecodeHead(bytes, pos) ==
    IF pos < 1 \/ pos > Len(bytes) \/ ~IsByte(bytes[pos]) THEN NoHead
    ELSE LET major == bytes[pos] \div 32
             ai == bytes[pos] % 32
             follow == CASE ai < 24 -> 0 [] ai = 24 -> 1 [] ai = 25 -> 2
                         [] ai = 26 -> 4 [] OTHER -> -1
         IN  IF follow < 0 \/ pos + follow > Len(bytes) THEN NoHead
             ELSE IF \E k \in 1..follow : ~IsByte(bytes[pos + k]) THEN NoHead
             ELSE [ok |-> TRUE, major |-> major,
                   arg |-> CASE follow = 0 -> N(ai)
                             [] follow = 1 -> N(bytes[pos + 1])
                             [] follow = 2 ->
                                 N(bytes[pos + 1] * 256 + bytes[pos + 2])
                             [] follow = 4 ->
                                 [hi |-> bytes[pos + 1] * 256 + bytes[pos + 2],
                                  lo |-> bytes[pos + 3] * 256 + bytes[pos + 4]],
                   next |-> pos + follow + 1]

IsContinuation(b) == b >= 128 /\ b <= 191

\* The length of the UTF-8 sequence a lead byte announces (0: no lead byte).
SequenceLength(b) ==
    CASE b < 128 -> 1
      [] b >= 194 /\ b <= 223 -> 2
      [] b >= 224 /\ b <= 239 -> 3
      [] b >= 240 /\ b <= 244 -> 4
      [] OTHER -> 0

\* The scalar value of the sequence of k bytes that starts at i.
ScalarAt(bytes, i, k) ==
    CASE k = 1 -> bytes[i]
      [] k = 2 -> (bytes[i] - 192) * 64 + (bytes[i + 1] - 128)
      [] k = 3 -> (bytes[i] - 224) * 4096 + (bytes[i + 1] - 128) * 64
                      + (bytes[i + 2] - 128)
      [] k = 4 -> (bytes[i] - 240) * 262144 + (bytes[i + 1] - 128) * 4096
                      + (bytes[i + 2] - 128) * 64 + (bytes[i + 3] - 128)

\* A well-formed sequence starts at i: shortest form, no surrogate, in range.
SequenceOk(bytes, i) ==
    LET k == SequenceLength(bytes[i])
    IN  /\ k > 0
        /\ i + k - 1 <= Len(bytes)
        /\ \A j \in 1..(k - 1) : IsContinuation(bytes[i + j])
        /\ LET cp == ScalarAt(bytes, i, k)
           IN  /\ k = 2 => cp >= 128
               /\ k = 3 => cp >= 2048 /\ ~(cp >= 55296 /\ cp <= 57343)
               /\ k = 4 => cp >= 65536 /\ cp <= 1114111

\* Every byte is a lead byte of a well-formed sequence or belongs to one.
IsUTF8(bytes) ==
    \A i \in 1..Len(bytes) :
        /\ IsByte(bytes[i])
        /\ IF IsContinuation(bytes[i])
           THEN \E d \in 1..3 :
                    /\ i - d >= 1
                    /\ ~IsContinuation(bytes[i - d])
                    /\ SequenceLength(bytes[i - d]) > d
                    /\ \A e \in 1..(d - 1) : IsContinuation(bytes[i - e])
           ELSE SequenceOk(bytes, i)

\* The UTF-16 code units of a scalar value.
UTF16OfCodePoint(cp) ==
    IF cp < 65536 THEN <<cp>>
    ELSE <<55296 + ((cp - 65536) \div 1024), 56320 + ((cp - 65536) % 1024)>>

RECURSIVE UTF16Range(_, _, _)
\* The code units of the sequences that start in i..j of well-formed bytes.
UTF16Range(bytes, i, j) ==
    IF i > j THEN <<>>
    ELSE IF i = j THEN
        IF IsContinuation(bytes[i]) THEN <<>>
        ELSE UTF16OfCodePoint(ScalarAt(bytes, i, SequenceLength(bytes[i])))
    ELSE LET m == (i + j) \div 2
         IN  UTF16Range(bytes, i, m) \o UTF16Range(bytes, m + 1, j)

\* The string (code units) that well-formed UTF-8 bytes stand for.
UTF8Decode(bytes) == UTF16Range(bytes, 1, Len(bytes))

NoItem == [ok |-> FALSE, item |-> UintItem(N(0)), next |-> 0]
NoItems == [ok |-> FALSE, items |-> <<>>, next |-> 0]

\* <<x1, x2, x3, x4, ...>> as <<<<x1, x2>>, <<x3, x4>>, ...>>.
Pairs(xs) == [i \in 1..(Len(xs) \div 2) |-> <<xs[2 * i - 1], xs[2 * i]>>]

RECURSIVE DecodeItem(_, _), DecodeItems(_, _, _)
\* The data item that starts at pos, and the position after it.
DecodeItem(bytes, pos) ==
    LET h == DecodeHead(bytes, pos)
        \* A length or count the bytes at hand could hold.
        n == IF h.arg.hi = 0 THEN h.arg.lo ELSE Len(bytes) + 1
    IN  IF ~h.ok THEN NoItem
        ELSE CASE h.major = 0 ->
                 [ok |-> TRUE, item |-> UintItem(h.arg), next |-> h.next]
          [] h.major = 1 ->
                 [ok |-> TRUE, item |-> NintItem(h.arg), next |-> h.next]
          [] h.major \in {2, 3} ->
                 LET content == SubSeq(bytes, h.next, h.next + n - 1)
                 IN  IF h.next + n - 1 > Len(bytes) THEN NoItem
                     ELSE IF \E i \in 1..n : ~IsByte(content[i]) THEN NoItem
                     ELSE IF h.major = 2
                     THEN [ok |-> TRUE, item |-> BstrItem(content),
                           next |-> h.next + n]
                     ELSE IF ~IsUTF8(content) THEN NoItem
                     ELSE [ok |-> TRUE, item |-> TstrItem(UTF8Decode(content)),
                           next |-> h.next + n]
          [] h.major = 4 ->
                 LET d == DecodeItems(bytes, h.next, n)
                 IN  IF ~d.ok THEN NoItem
                     ELSE [ok |-> TRUE, item |-> ArrayItem(d.items),
                           next |-> d.next]
          [] h.major = 5 ->
                 LET d == DecodeItems(bytes, h.next, 2 * n)
                 IN  IF ~d.ok THEN NoItem
                     ELSE [ok |-> TRUE, item |-> MapItem(Pairs(d.items)),
                           next |-> d.next]
          [] OTHER -> NoItem

\* The n data items that start at pos, and the position after them.
DecodeItems(bytes, pos, n) ==
    IF n = 0 THEN [ok |-> TRUE, items |-> <<>>, next |-> pos]
    ELSE LET first == DecodeItem(bytes, pos)
         IN  IF ~first.ok THEN NoItems
             ELSE LET rest == DecodeItems(bytes, first.next, n - 1)
                  IN  IF ~rest.ok THEN NoItems
                      ELSE [ok |-> TRUE, items |-> <<first.item>> \o rest.items,
                            next |-> rest.next]

RECURSIVE DecodeAll(_, _)
\* The data items that fill bytes from pos to the end.
DecodeAll(bytes, pos) ==
    IF pos = Len(bytes) + 1 THEN [ok |-> TRUE, items |-> <<>>, next |-> pos]
    ELSE LET first == DecodeItem(bytes, pos)
         IN  IF ~first.ok THEN NoItems
             ELSE LET rest == DecodeAll(bytes, first.next)
                  IN  IF ~rest.ok THEN NoItems
                      ELSE [ok |-> TRUE, items |-> <<first.item>> \o rest.items,
                            next |-> rest.next]

---------------------------------------------------------------------------
(* The values the caller encoded, read off the calls                       *)

\* A string with no lone surrogate (a sequence of Unicode scalar values).
WellFormed(text) ==
    \A i \in 1..Len(text) :
        /\ IsHighSurrogate(text[i]) => i < Len(text) /\ IsLowSurrogate(text[i + 1])
        /\ IsLowSurrogate(text[i]) => i > 1 /\ IsHighSurrogate(text[i - 1])

\* The number of UTF-8 bytes of a string: one per code unit, one more for
\* each unit from U+0080 on, one more again for each unit from U+0800 on
\* that is not half of a surrogate pair (a pair is four bytes, a lone
\* surrogate the three of U+FFFD).
UTF8Length(text) ==
    Len(text)
    + Cardinality({i \in 1..Len(text) : text[i] >= 128})
    + Cardinality({i \in 1..Len(text) :
           /\ text[i] >= 2048
           /\ ~(IsHighSurrogate(text[i]) /\ i < Len(text)
                    /\ IsLowSurrogate(text[i + 1]))
           /\ ~(IsLowSurrogate(text[i]) /\ i > 1
                    /\ IsHighSurrogate(text[i - 1]))})

\* The call is within the subset the encoder covers.
Supported(c) ==
    CASE c.op = "encodeUint" -> c.arg.hi < 65536
      [] c.op = "encodeNegativeInt" -> c.arg >= -256 /\ c.arg <= -1
      [] c.op = "encodeBytes" -> Len(c.arg) < 256
      [] c.op = "encodeText" -> WellFormed(c.arg) /\ UTF8Length(c.arg) < 256
      [] c.op \in {"encodeArray", "encodeMap"} -> c.arg >= 0 /\ c.arg < 256
      [] OTHER -> FALSE

RECURSIVE ItemOfCalls(_, _), ItemsOfCalls(_, _, _)
\* The value whose encoding starts with call i: a header call stands for
\* the array or map of the items the following calls encode.
ItemOfCalls(cs, i) ==
    IF i > Len(cs) THEN NoItem
    ELSE LET c == cs[i]
         IN  CASE c.op = "encodeUint" ->
                  [ok |-> TRUE, item |-> UintItem(c.arg), next |-> i + 1]
               [] c.op = "encodeNegativeInt" ->
                  [ok |-> TRUE, item |-> NintItem(N(-c.arg - 1)), next |-> i + 1]
               [] c.op = "encodeBytes" ->
                  [ok |-> TRUE, item |-> BstrItem(c.arg), next |-> i + 1]
               [] c.op = "encodeText" ->
                  [ok |-> TRUE, item |-> TstrItem(c.arg), next |-> i + 1]
               [] c.op = "encodeArray" ->
                  LET d == ItemsOfCalls(cs, i + 1, c.arg)
                  IN  IF ~d.ok THEN NoItem
                      ELSE [ok |-> TRUE, item |-> ArrayItem(d.items),
                            next |-> d.next]
               [] c.op = "encodeMap" ->
                  LET d == ItemsOfCalls(cs, i + 1, 2 * c.arg)
                  IN  IF ~d.ok THEN NoItem
                      ELSE [ok |-> TRUE, item |-> MapItem(Pairs(d.items)),
                            next |-> d.next]
               [] OTHER -> NoItem

ItemsOfCalls(cs, i, n) ==
    IF n = 0 THEN [ok |-> TRUE, items |-> <<>>, next |-> i]
    ELSE LET first == ItemOfCalls(cs, i)
         IN  IF ~first.ok THEN NoItems
             ELSE LET rest == ItemsOfCalls(cs, first.next, n - 1)
                  IN  IF ~rest.ok THEN NoItems
                      ELSE [ok |-> TRUE, items |-> <<first.item>> \o rest.items,
                            next |-> rest.next]

RECURSIVE AllOfCalls(_, _)
\* The values encoded by the calls from i to the last, when they are whole.
AllOfCalls(cs, i) ==
    IF i = Len(cs) + 1 THEN [ok |-> TRUE, items |-> <<>>, next |-> i]
    ELSE LET first == ItemOfCalls(cs, i)
         IN  IF ~first.ok THEN NoItems
             ELSE LET rest == AllOfCalls(cs, first.next)
                  IN  IF ~rest.ok THEN NoItems
                      ELSE [ok |-> TRUE, items |-> <<first.item>> \o rest.items,
                            next |-> rest.next]

\* The last call made on the encoder and the elements it added.
Called == calls # <<>>
LastCall == calls[Len(calls)]
Delta == SubSeq(buffer, Len(pre) + 1, Len(buffer))

\* The shortest head for major type and argument l < 2^32 (RFC 8949, 4.2.1).
ShortestHead(major, l) ==
    IF l.hi = 0 /\ l.lo < 24 THEN <<major * 32 + l.lo>>
    ELSE IF l.hi = 0 /\ l.lo < 256 THEN <<major * 32 + 24, l.lo>>
    ELSE IF l.hi = 0 THEN <<major * 32 + 25, l.lo \div 256, l.lo % 256>>
    ELSE <<major * 32 + 26, l.hi \div 256, l.hi % 256,
           l.lo \div 256, l.lo % 256>>

IsPrefix(s, t) == Len(s) <= Len(t) /\ SubSeq(t, 1, Len(s)) = s

\* The call is outside the subset: a value or length the encoder has no
\* marker for.
OutOfSubset(c) ==
    CASE c.op = "encodeUint" -> c.arg.hi >= 65536
      [] c.op = "encodeNegativeInt" -> Abs(c.arg) - 1 >= 256
      [] c.op = "encodeBytes" -> Len(c.arg) >= 256
      [] c.op = "encodeText" -> UTF8Length(c.arg) >= 256
      [] c.op \in {"encodeArray", "encodeMap"} -> c.arg >= 256
      [] OTHER -> FALSE

\* The major type a call encodes and the length or value in its head.
MajorOf(c) ==
    CASE c.op = "encodeUint" -> 0
      [] c.op = "encodeNegativeInt" -> 1
      [] c.op = "encodeBytes" -> 2
      [] c.op = "encodeText" -> 3
      [] c.op = "encodeArray" -> 4
      [] c.op = "encodeMap" -> 5

ArgumentOf(c) ==
    CASE c.op = "encodeUint" -> c.arg
      [] c.op = "encodeNegativeInt" -> N(Abs(c.arg) - 1)
      [] c.op = "encodeBytes" -> N(Len(c.arg))
      [] c.op = "encodeText" -> N(UTF8Length(c.arg))
      [] c.op \in {"encodeArray", "encodeMap"} -> N(c.arg)

---------------------------------------------------------------------------
(* The claims                                                              *)

\* C1: for every length or value l >= 0 given to encodeUint, encodeBytes,
\* encodeText, encodeArray or encodeMap, the elements added start with the
\* shortest CBOR head for l: l in the initial byte below 24, marker 24 and
\* one byte below 256, marker 25 and two bytes below 65536, marker 26 and
\* four bytes below 2^32, and never a marker too short to hold l.
LengthPrefixMinimality ==
    (Called /\ LastCall.op \in {"encodeUint", "encodeBytes", "encodeText",
                                 "encodeArray", "encodeMap"})
    => LET l == ArgumentOf(LastCall)
       IN  IF l.hi < 65536
           THEN IsPrefix(ShortestHead(MajorOf(LastCall), l), Delta)
           ELSE Delta # <<>> /\ Delta[1] % 32 = 27

\* C2: a call outside the subset ends in an error and leaves the buffer as
\* it was before the call.
ExplicitFailure ==
    (Called /\ OutOfSubset(LastCall)) => (outcome = "threw" /\ buffer = pre)

\* C3: the elements added for a supported value decode, under the reference
\* decoder, to exactly that value, and the decoder consumes exactly those
\* elements; a header followed by the declared number of items (or pairs)
\* decodes to the array (or map) of those items.
RoundTrip ==
    (Called /\ \A i \in 1..Len(calls) : Supported(calls[i]))
    => /\ IF LastCall.op \in {"encodeArray", "encodeMap"}
          THEN DecodeHead(buffer, Len(pre) + 1) =
                   [ok |-> TRUE, major |-> MajorOf(LastCall),
                    arg |-> N(LastCall.arg), next |-> Len(buffer) + 1]
          ELSE DecodeItem(buffer, Len(pre) + 1) =
                   [ok |-> TRUE, item |-> ItemOfCalls(calls, Len(calls)).item,
                    next |-> Len(buffer) + 1]
       /\ LET v == AllOfCalls(calls, 1)
          IN  v.ok => DecodeAll(buffer, 1) =
                          [ok |-> TRUE, items |-> v.items,
                           next |-> Len(buffer) + 1]

\* C3's case: createCWTClaims has made its last call, so the buffer holds a
\* whole map of nine pairs with a nested array, and it decodes.
RoundTripWitness ==
    /\ pc = "createCWTClaims" /\ ip = Len(createCWTClaims) + 1
    /\ AllOfCalls(calls, 1).ok
    /\ Len(AllOfCalls(calls, 1).items) = 1
    /\ DecodeAll(buffer, 1).ok

\* C4: encodeUint(v), 0 <= v < 2^32, adds a major-type-0 item holding v
\* big-endian in the shortest of the four forms, also for v >= 2^31; 23
\* gives 0x17, 24 gives 0x18 0x18 and 256 gives 0x19 0x01 0x00.
UintEncoding ==
    (Called /\ LastCall.op = "encodeUint" /\ LastCall.arg.hi < 65536)
    => LET v == LastCall.arg
       IN  /\ Delta = IF v.hi = 0 /\ v.lo < 24 THEN <<v.lo>>
                      ELSE IF v.hi = 0 /\ v.lo < 256 THEN <<24, v.lo>>
                      ELSE IF v.hi = 0 THEN <<25, v.lo \div 256, v.lo % 256>>
                      ELSE <<26, v.hi \div 256, v.hi % 256,
                             v.lo \div 256, v.lo % 256>>
           /\ v = N(23) => Delta = <<23>>
           /\ v = N(24) => Delta = <<24, 24>>
           /\ v = N(256) => Delta = <<25, 1, 0>>

\* C4's case: a value of 2^31 or more, whose 32-bit shift is negative.
UintWitness ==
    /\ Called /\ LastCall.op = "encodeUint"
    /\ LastCall.arg.hi >= 32768 /\ LastCall.arg.hi < 65536
    /\ Len(Delta) = 5 /\ Delta[2] >= 128

\* C5: encodeNegativeInt(v), -256 <= v <= -1, adds a major-type-1 item
\* holding m = |v| - 1: the byte 0x20 | m below 24, else 0x38 m; -7 gives
\* 0x26 and -1 gives 0x20.
NegativeIntEncoding ==
    (Called /\ LastCall.op = "encodeNegativeInt"
        /\ LastCall.arg >= -256 /\ LastCall.arg <= -1)
    => LET m == -LastCall.arg - 1
       IN  /\ Delta = IF m < 24 THEN <<32 + m>> ELSE <<56, m>>
           /\ LastCall.arg = -7 => Delta = <<38>>
           /\ LastCall.arg = -1 => Delta = <<32>>

\* C5's case: -7 was encoded.
NegativeIntWitness ==
    Called /\ LastCall = Call("encodeNegativeInt", -7) /\ Delta = <<38>>

\* C6: encodeBytes(b) and encodeText(t), for content of n < 256 bytes, add
\* a head of major type 2 or 3 (n in the initial byte below 24, else marker
\* 24 and the byte n) and then the n content bytes in order; for text n is
\* the number of UTF-8 bytes, not of characters, and the content is the
\* UTF-8 of the text; "erikw" gives 0x65 and its five bytes.
StringEncoding ==
    /\ (Called /\ LastCall.op = "encodeBytes" /\ Len(LastCall.arg) < 256)
       => LET n == Len(LastCall.arg)
          IN  Delta = (IF n < 24 THEN <<64 + n>> ELSE <<88, n>>) \o LastCall.arg
    /\ (Called /\ LastCall.op = "encodeText" /\ UTF8Length(LastCall.arg) < 256)
       => LET n == UTF8Length(LastCall.arg)
              head == IF n < 24 THEN <<96 + n>> ELSE <<120, n>>
              content == SubSeq(Delta, Len(head) + 1, Len(Delta))
          IN  /\ IsPrefix(head, Delta)
              /\ Len(content) = n
              /\ IsUTF8(content)
              /\ WellFormed(LastCall.arg) => UTF8Decode(content) = LastCall.arg
              /\ LastCall.arg = TextSub
                     => Delta = <<101, 101, 114, 105, 107, 119>>

\* C6's case: a text of fewer than 24 characters and 24 bytes or more.
StringWitness ==
    /\ Called /\ LastCall.op = "encodeText"
    /\ Len(LastCall.arg) < 24 /\ UTF8Length(LastCall.arg) >= 24
    /\ Delta[1] = 120 /\ Delta[2] = UTF8Length(LastCall.arg)

\* C10: every element of the buffer is an integer in 0..255, so getBuffer's
\* Uint8Array has the buffer's length and elements.
ByteRange ==
    /\ \A i \in 1..Len(buffer) : IsByte(buffer[i])
    /\ pc = "returned" => result = buffer

\* The length of a byte string's encoding: its head and its content.
WrappedLength(b) == (IF Len(b) < 24 THEN 1 ELSE 2) + Len(b)

\* C7: createCOSESign1 returns a buffer that starts with 0x84 and is, in
\* this order, the array header, the protected-header map wrapped as a byte
\* string, the unprotected-header map spliced in raw, the claims map wrapped
\* as a byte string and the 64-byte signature wrapped as a byte string; its
\* length is 1 plus the lengths of the four parts, and each wrapper's length
\* field is the length of what it wraps.
CoseSign1Layout ==
    pc = "done"
    => LET d == DecodeItem(result, 1)
           e1 == DecodeItem(result, 2)
           e2 == DecodeItem(result, e1.next)
           e3 == DecodeItem(result, e2.next)
           e4 == DecodeItem(result, e3.next)
       IN  /\ result[1] = 132
           /\ Len(signature) = 64
           /\ d.ok /\ d.next = Len(result) + 1
           /\ d.item = ArrayItem(<<BstrItem(protectedHeaders),
                                   MapItem(<< <<UintItem(N(4)),
                                                TstrItem(TextKid)>> >>),
                                   BstrItem(payload),
                                   BstrItem(signature)>>)
           /\ e1.next = 2 + WrappedLength(protectedHeaders)
           /\ SubSeq(result, e1.next, e2.next - 1) = unprotectedHeaders
           /\ e3.next = e2.next + WrappedLength(payload)
           /\ e4.next = e3.next + WrappedLength(signature)
           /\ Len(result) = 1 + WrappedLength(protectedHeaders)
                              + Len(unprotectedHeaders)
                              + WrappedLength(payload)
                              + WrappedLength(signature)
           /\ DecodeAll(protectedHeaders, 1) =
                  [ok |-> TRUE,
                   items |-> <<MapItem(<< <<UintItem(N(1)), NintItem(N(6))>> >>)>>,
                   next |-> Len(protectedHeaders) + 1]
           /\ DecodeItem(payload, 1).ok
           /\ DecodeItem(payload, 1).item.type = "map"

\* C7's case: createCOSESign1 has returned the envelope of 196 bytes.
CoseSign1Witness ==
    pc = "done" /\ Len(result) = 196 /\ result[1] = 132

\* C8: createCWTClaims returns a buffer that starts with 0xa9 and holds
\* exactly nine key/value pairs, as many as the header declares, whose keys
\* are 1,2,3,4,5,6,7,100,101 in buffer order; the value under 101 is an
\* array that declares three items and holds exactly three text strings.
CWTClaimsLayout ==
    pc \in {"signature", "createCOSESign1", "done"}
    => LET d == DecodeItem(payload, 1)
       IN  /\ payload[1] = 169
           /\ d.ok /\ d.next = Len(payload) + 1
           /\ d.item.type = "map"
           /\ Len(d.item.pairs) = 9
           /\ [i \in 1..9 |-> d.item.pairs[i][1]] =
                  <<UintItem(N(1)), UintItem(N(2)), UintItem(N(3)),
                    UintItem(N(4)), UintItem(N(5)), UintItem(N(6)),
                    UintItem(N(7)), UintItem(N(100)), UintItem(N(101))>>
           /\ d.item.pairs[9][2] =
                  ArrayItem(<<TstrItem(TextAdmin), TstrItem(TextEdit),
                              TstrItem(TextRead)>>)

\* C8's case: createCWTClaims has returned its 112 bytes to createCOSESign1.
CWTClaimsWitness ==
    pc = "signature" /\ Len(payload) = 112 /\ payload[1] = 169

RECURSIVE OutputsOf(_, _)
\* What each of the first n calls adds to an empty buffer, in call order.
OutputsOf(cs, n) ==
    IF n = 0 THEN <<>> ELSE OutputsOf(cs, n - 1) \o Apply(<<>>, cs[n])

\* A step that makes one more call on the encoder keeps the elements the
\* buffer holds, in place; a header call adds the head and nothing else.
AppendStep ==
    Len(calls') = Len(calls) + 1
    => /\ IsPrefix(buffer, buffer')
       /\ LET c == calls'[Len(calls')]
          IN  c.op \in {"encodeArray", "encodeMap"}
              => /\ Len(buffer') - Len(buffer) \in {1, 2}
                 /\ buffer'[Len(buffer) + 1] \div 32 = MajorOf(c)
                 /\ Supported(c) =>
                        DecodeHead(buffer', Len(buffer) + 1).next
                            = Len(buffer') + 1

\* C9: every encoder operation leaves the elements already in the buffer
\* unchanged and in place and only adds at the end, so the buffer is the
\* outputs of the calls in call order; encodeArray and encodeMap add only
\* the header.
AppendOnly ==
    /\ [](buffer = OutputsOf(calls, Len(calls)))
    /\ [][AppendStep]_vars

\* C9's case: a map header was added to a buffer that already held items.
AppendOnlyWitness ==
    /\ Len(calls) >= 2 /\ LastCall.op = "encodeMap"
    /\ Len(pre) > 0 /\ Len(buffer) > Len(pre)

====
